---- MODULE Spec2Model ----
(***************************************************************************)
(* A model of src/vis.py: the detection visualisation module with its      *)
(* annotation export (id_map_func, txt_file_func, xml_create_func) and the *)
(* two rendering entry points vis_one_image and vis_one_image_opencv.      *)
(*                                                                         *)
(* Encoding.  A text is a sequence of one-character strings, so slicing,   *)
(* splitting and stripping are computed character by character.  A         *)
(* confidence score is an integer number of thousandths (0.9 is 900); a    *)
(* box coordinate is a natural number (an integer-valued float).  A row of *)
(* the boxes array is <<x_min, y_min, x_max, y_max, score>>.               *)
(* segms and keypoints are left at their default None in these calls.      *)
(***************************************************************************)
EXTENDS Integers, Sequences, FiniteSets, TLC

VARIABLES
    pc,         \* per worker: the place of its call in the code
    inp,        \* per worker: the arguments of its call
    loc,        \* per worker: the local variables of vis_one_image
    err,        \* per worker: the exception that left the call, or "none"
    dirs,       \* the directories that exist
    xml_files,  \* the files of xml_path: a set of <<name, content>>
    images,     \* the files of output_dir: a set of names
    stdout,     \* what print() has written
    fs0,        \* the filesystem when the calls started
    io_failed,  \* per worker: open/write of the annotation file failed
    fmt,        \* the argument and the result of a get_class_string call
    conv,       \* the arguments and the result of a convert_from_cls_format call
    kp          \* the keypoints of one detection and what a backend drew of them

vars == <<pc, inp, loc, err, dirs, xml_files, images, stdout, fs0, io_failed, fmt, conv, kp>>

----------------------------------------------------------------------------
(* Bounds of the model *)

MaxDets == 3
NumWorkers == 2

----------------------------------------------------------------------------
(* Texts *)

DigitChars == <<"0", "1", "2", "3", "4", "5", "6", "7", "8", "9">>

DigitChar(d) == DigitChars[d + 1]

RECURSIVE Digits(_)
\* '{:d}'.format(n) and the integer part of str(float): decimal digits
Digits(n) == IF n < 10 THEN <<DigitChar(n)>>
             ELSE Digits(n \div 10) \o <<DigitChar(n % 10)>>

DigitValue(c) == CHOOSE d \in 0..9 : DigitChars[d + 1] = c

IsDigit(c) == \E d \in 0..9 : DigitChars[d + 1] = c

RECURSIVE ParseDigits(_)
ParseDigits(s) == IF s = <<>> THEN 0
                  ELSE 10 * ParseDigits(SubSeq(s, 1, Len(s) - 1)) + DigitValue(s[Len(s)])

\* str(x) of an integer-valued float x: "3.0"
FloatStr(n) == Digits(n) \o <<".", "0">>

\* float(s) for a text written by FloatStr; -1 when s is not such a text
ParseFloat(s) ==
    IF /\ Len(s) >= 3
       /\ s[Len(s) - 1] = "."
       /\ s[Len(s)] = "0"
       /\ \A k \in 1..(Len(s) - 2) : IsDigit(s[k])
    THEN ParseDigits(SubSeq(s, 1, Len(s) - 2))
    ELSE -1

\* '{:0.2f}'.format(score) for a score of s thousandths: round to hundredths
\* (the sample scores avoid the ties x.xx5, which binary floats do not hold)
Format2f(s) ==
    LET h == (s + 5) \div 10
    IN Digits(h \div 100) \o <<".", DigitChar((h \div 10) % 10), DigitChar(h % 10)>>

RECURSIVE LStrip(_, _)
\* str.lstrip(c): drop the leading run of the character c
LStrip(s, c) == IF s # <<>> /\ s[1] = c THEN LStrip(Tail(s), c) ELSE s

\* the positions of the character c in s
Positions(s, c) == {k \in 1..Len(s) : s[k] = c}

Max(S) == CHOOSE m \in S : \A k \in S : k <= m

\* im_name.split('/')[-1] and os.path.basename(im_name): what follows the last '/'
Basename(s) ==
    IF Positions(s, "/") = {} THEN s
    ELSE SubSeq(s, Max(Positions(s, "/")) + 1, Len(s))

\* os.path.splitext(p): <<root, ext>>, ext from the last '.', leading dots kept in root
SplitExt(p) ==
    LET dots == Positions(p, ".")
        last == Max(dots)
    IN IF dots # {} /\ (\E k \in 1..(last - 1) : p[k] # ".")
       THEN <<SubSeq(p, 1, last - 1), SubSeq(p, last, Len(p))>>
       ELSE <<p, <<>>>>

XmlSuffix == <<".", "x", "m", "l">>

----------------------------------------------------------------------------
(* The inputs the calls are drawn from *)

DefaultThresh == 900

\* the detections a detector output is built from: class index, box, score
DetSamples ==
    { [cls |-> 1, box |-> <<0, 0, 10, 5>>, score |-> 950],   \* area 50
      [cls |-> 2, box |-> <<0, 0, 5, 2>>,  score |-> 900],   \* area 10, score = thresh
      [cls |-> 7, box |-> <<1, 1, 7, 6>>,  score |-> 950],   \* area 30, last vocabulary entry
      [cls |-> 3, box |-> <<0, 0, 3, 4>>,  score |-> 850],   \* area 12, below thresh
      [cls |-> 8, box |-> <<0, 0, 5, 10>>, score |-> 950],   \* area 50 again, no vocabulary entry
      [cls |-> 0, box |-> <<1, 1, 7, 6>>,  score |-> 990] }  \* the background index

\* the number of classes of the detector: cls_boxes holds one sub-list per class
NumClasses == 1 + Max({d.cls : d \in DetSamples})

ImNames ==
    { <<"d", "/", "a", ".", "j", "p", "g">>,
      <<"b", ".", "j", "p", "e", "g">>,
      <<"s", "c", "a", "n", "1">> }

\* im.shape of the image array: height, width, depth
ImShape == <<4, 6, 3>>

\* a dataset object: dataset.classes[j]
SampleClasses == [j \in 0..(NumClasses - 1) |-> <<"c">> \o Digits(j)]

\* the flat detection sequences: class by class, as the testing code emits them
DetSeqs ==
    UNION { {s \in [1..n -> DetSamples] : \A k \in 1..(n - 1) : s[k].cls <= s[k + 1].cls}
            : n \in 0..MaxDets }

Row(d) == d.box \o <<d.score>>

RECURSIVE SelectRows(_, _)
SelectRows(s, j) ==
    IF s = <<>> THEN <<>>
    ELSE (IF s[1].cls = j THEN <<Row(s[1])>> ELSE <<>>) \o SelectRows(Tail(s), j)

\* the per-class nested form of a detection sequence (position j + 1 holds class j)
ClsBoxes(s) == [j1 \in 1..NumClasses |-> SelectRows(s, j1 - 1)]

RECURSIVE Rows(_)
Rows(s) == IF s = <<>> THEN <<>> ELSE <<Row(s[1])>> \o Rows(Tail(s))

----------------------------------------------------------------------------
(* The pure functions of the module *)

NoneList == [none |-> TRUE, items |-> <<>>]

RECURSIVE Flatten(_)
Flatten(ll) == IF ll = <<>> THEN <<>> ELSE ll[1] \o Flatten(Tail(ll))

RECURSIVE RepeatClasses(_, _)
\* classes += [j] * len(cls_boxes[j]) for j in range(len(cls_boxes)), from j on
RepeatClasses(cls_boxes, j) ==
    IF j >= Len(cls_boxes) THEN <<>>
    ELSE [k \in 1..Len(cls_boxes[j + 1]) |-> j] \o RepeatClasses(cls_boxes, j + 1)

convert_from_cls_format_nonempty(cls_boxes, cls_segms, cls_keyps) ==
    LET box_list == SelectSeq(cls_boxes, LAMBDA b : Len(b) > 0)
    IN [ boxes_none |-> (Len(box_list) = 0),
         boxes |-> Flatten(box_list),
         segms |-> IF cls_segms.none THEN NoneList
                   ELSE [none |-> FALSE, items |-> Flatten(cls_segms.items)],
         keyps |-> IF cls_keyps.none THEN NoneList
                   ELSE [none |-> FALSE, items |-> Flatten(cls_keyps.items)],
         classes |-> RepeatClasses(box_list, 0) ]

convert_from_cls_format(cls_boxes, cls_segms, cls_keyps) ==
    LET box_list == SelectSeq(cls_boxes, LAMBDA b : Len(b) > 0)
    IN [ boxes_none |-> (Len(box_list) = 0),
         boxes |-> Flatten(box_list),
         segms |-> IF cls_segms.none THEN NoneList
                   ELSE [none |-> FALSE, items |-> Flatten(cls_segms.items)],
         keyps |-> IF cls_keyps.none THEN NoneList
                   ELSE [none |-> FALSE, items |-> Flatten(cls_keyps.items)],
         classes |-> RepeatClasses(cls_boxes, 0) ]

\* class_text + ' {:0.2f}'.format(score).lstrip('0'): the text formatted and
\* stripped starts with the blank of the format
get_class_string(class_index, score, dataset) ==
    LET class_text == IF dataset.none THEN <<"i", "d">> \o Digits(class_index)
                      ELSE dataset.classes[class_index]
    IN class_text \o LStrip(<<" ">> \o Format2f(score), "0")

Area(row) == (row[3] - row[1]) * (row[4] - row[2])

\* np.argsort(a), default kind: the index permutations that put a in
\* non-decreasing order.  The default sort is not stable, so the order of the
\* indices of equal values is any.  Indices count from 0.
Argsort(a) ==
    LET n == Len(a)
    IN { p \in [1..n -> 0..(n - 1)] :
           /\ \A k, l \in 1..n : k # l => p[k] # p[l]
           /\ \A k \in 1..(n - 1) : a[p[k] + 1] <= a[p[k + 1] + 1] }

SortedIndsAscending(boxes) == Argsort([k \in 1..Len(boxes) |-> Area(boxes[k])])

\* areas = (boxes[:, 2] - boxes[:, 0]) * (boxes[:, 3] - boxes[:, 1])
\* sorted_inds = np.argsort(-areas)
SortedInds(boxes) == Argsort([k \in 1..Len(boxes) |-> 0 - Area(boxes[k])])

MaxScore(boxes) == Max({boxes[k][5] : k \in 1..Len(boxes)})

\* boxes is None or boxes.shape[0] == 0 or max(boxes[:, 4]) < thresh
NothingToRender(boxes_none, boxes, thresh) ==
    boxes_none \/ Len(boxes) = 0 \/ MaxScore(boxes) < thresh

EarlyReturnInverted(boxes_none, boxes, thresh, out_when_no_box) ==
    NothingToRender(boxes_none, boxes, thresh) /\ out_when_no_box

\* the condition of the early return of vis_one_image
EarlyReturn(boxes_none, boxes, thresh, out_when_no_box) ==
    NothingToRender(boxes_none, boxes, thresh) /\ ~out_when_no_box

----------------------------------------------------------------------------
(* The walk over the paint order (vis_one_image, the for loop) *)

\* what the canvas holds: the patches and texts added, in the order of drawing
Rect(i) == [kind |-> "rect", det |-> i, text |-> <<>>]
Text(i, t) == [kind |-> "text", det |-> i, text |-> t]

NoDataset == [none |-> TRUE, classes |-> <<>>]

\* temp_boxes = np.array([[100, 200, 400, 500, 0.8]]): the row later deleted
InitialTempBoxes == << <<100, 200, 400, 500, 800>> >>

RECURSIVE WalkFrom(_, _, _, _, _, _, _)
\* for i in sorted_inds (from position k on), with the lists built so far in acc
WalkFrom(k, sorted_inds, boxes, classes_defined, classes, args, acc) ==
    IF k > Len(sorted_inds) \/ acc.err # "none" THEN acc
    ELSE
      LET i == sorted_inds[k]
          score == boxes[i + 1][5]
      IN IF score < args.thresh
         THEN WalkFrom(k + 1, sorted_inds, boxes, classes_defined, classes, args, acc)
         ELSE
           LET boxed == [acc EXCEPT !.temp_boxes = Append(@, boxes[i + 1]),
                                    !.drawn = Append(@, Rect(i))]
           IN IF ~args.show_class
              THEN WalkFrom(k + 1, sorted_inds, boxes, classes_defined, classes, args, boxed)
              ELSE IF ~classes_defined
              THEN [boxed EXCEPT !.err = "NameError"]
              ELSE WalkFrom(k + 1, sorted_inds, boxes, classes_defined, classes, args,
                     [boxed EXCEPT
                        !.temp_classify_id_list = Append(@, classes[i + 1]),
                        !.drawn = Append(@, Text(i,
                            get_class_string(classes[i + 1], score, NoDataset)))])

Walk(sorted_inds, boxes, classes_defined, classes, args) ==
    WalkFrom(1, sorted_inds, boxes, classes_defined, classes, args,
             [temp_boxes |-> InitialTempBoxes, temp_classify_id_list |-> <<>>,
              drawn |-> <<>>, err |-> "none"])

----------------------------------------------------------------------------
(* The Identity Mapper *)

None == "None"

id_list == <<"id12", "id13", "id14", "id15", "id18", "id19", "id26">>

\* index = { i:k for i,k in enumerate(id_list, 1) }; index.get(x)
IndexGet(x) == IF x \in 1..Len(id_list) THEN id_list[x] ELSE None

IndexGetFromZero(x) == IF x \in 0..(Len(id_list) - 1) THEN id_list[x + 1] ELSE None

id_map_func_from_zero(rd_id_list) ==
    [k \in 1..Len(rd_id_list) |-> IndexGetFromZero(rd_id_list[k])]

\* lb_list = list(map(index.get, rd_id_list))
id_map_func(rd_id_list) == [k \in 1..Len(rd_id_list) |-> IndexGet(rd_id_list[k])]

----------------------------------------------------------------------------
(* The rows handed to the exporter *)

\* a cell of the rows array: a str, or a value that is no str
StrCell(t) == [kind |-> "str", text |-> t]
FloatCell(x) == [kind |-> "float", text |-> FloatStr(x)]
NoneCell == [kind |-> "NoneType", text |-> None]

\* One row [image, label, x_min, y_min, x_max, y_max].  A list of str and float
\* becomes an array of str (the floats written as by str()); a list that holds
\* None becomes an array of objects, its values kept as they are.  np.vstack
\* keeps the cells of the rows already there.
TxtRow(txt_image, label, box) ==
    IF label = None
    THEN <<StrCell(txt_image), NoneCell>> \o [k \in 1..4 |-> FloatCell(box[k])]
    ELSE <<StrCell(txt_image), StrCell(label)>> \o [k \in 1..4 |-> StrCell(FloatStr(box[k]))]

txt_file_func(txt_image, txt_label_list, txt_boxes) ==
    LET n == Len(txt_boxes)
    IN IF n = 0
       THEN [err |-> "UnboundLocalError", rows |-> <<>>]   \* return temp_txt_total
       ELSE IF n > Len(txt_label_list)
       THEN [err |-> "IndexError", rows |-> <<>>]          \* txt_label_list[i]
       ELSE [err |-> "none",
             rows |-> [i \in 1..n |-> TxtRow(txt_image, txt_label_list[i], txt_boxes[i])]]

----------------------------------------------------------------------------
(* The Annotation Exporter: the document of xml_create_func *)

Object(row) ==
    [name |-> row[2].text, pose |-> "Unspecified", truncated |-> "0", difficult |-> "0",
     xmin |-> row[3].text, ymin |-> row[4].text, xmax |-> row[5].text, ymax |-> row[6].text]

\* doc.createTextNode(data) raises TypeError unless data is a str
TextNodeFails(row) == \E k \in 2..6 : row[k].kind # "str"

\* lines 293-410: the document, node by node, and the name of the file
BuildDoc(image_folder, image_name, image_path_ab, image_size, temp_text) ==
    IF \E i \in 1..Len(temp_text) : TextNodeFails(temp_text[i])
    THEN [err |-> "TypeError", doc |-> <<>>, txt_file_name |-> <<>>]
    ELSE IF Len(temp_text) = 0
    THEN [err |-> "UnboundLocalError", doc |-> <<>>, txt_file_name |-> <<>>]  \* txt_file_name
    ELSE [err |-> "none",
          doc |-> << [folder |-> image_folder, filename |-> image_name,
                      path |-> image_path_ab, database |-> "Unknown",
                      width |-> image_size[2], height |-> image_size[1],
                      depth |-> image_size[3], segmented |-> "0",
                      objects |-> [i \in 1..Len(temp_text) |-> Object(temp_text[i])]] >>,
          txt_file_name |-> temp_text[Len(temp_text)][1].text]

\* s[:-4]
DropLast4(s) == SubSeq(s, 1, Len(s) - 4)

\* temp_xmlfile = xml_path + '/' + txt_file_name[:-4] + '.xml' (the part after xml_path)
XmlFileName(txt_file_name) == DropLast4(txt_file_name) \o XmlSuffix

\* what the file holds after a write that failed part-way
Partial == <<>>

WriteFile(files, name, content) ==
    {f \in files : f[1] # name} \cup {<<name, content>>}

XmlWriteUncaught(outcome) ==
    IF outcome = "ok"
    THEN [pc |-> "savefig", err |-> "none", out |-> <<"xml_ok">>]
    ELSE [pc |-> "raised", err |-> "IOError", out |-> <<>>]

\* try: with open(...) as fh: doc.writexml(fh, ...); print(OK)
\* except Exception as err: print(err)
XmlWriteResult(outcome) ==
    IF outcome = "ok"
    THEN [pc |-> "savefig", err |-> "none", out |-> <<"xml_ok">>]
    ELSE [pc |-> "savefig", err |-> "none", out |-> <<"xml_err">>]

----------------------------------------------------------------------------
(* The calls *)

Workers == 1..NumWorkers

OutputDir == "output_dir"
XmlPath == "/data/yang/detectron/output/xml_files"
ImagePath == "/data/yang/detectron/output/xml_files/"
ImagesFolder == "xml_files"

IdleInput ==
    [entry |-> "none", form |-> "none", dets |-> <<>>, show_class |-> FALSE,
     show_box |-> FALSE, out_when_no_box |-> FALSE, im_name |-> <<>>,
     thresh |-> DefaultThresh]

\* the calls of vis_one_image: boxes given per class, as an array, or None
VisInputs ==
    { [entry |-> "vis_one_image", form |-> f, dets |-> s, show_class |-> sc,
       show_box |-> FALSE, out_when_no_box |-> o, im_name |-> nm,
       thresh |-> DefaultThresh] :
      f \in {"list", "array"}, s \in DetSeqs, sc \in BOOLEAN, o \in BOOLEAN,
      nm \in ImNames }
    \cup
    { [entry |-> "vis_one_image", form |-> "none", dets |-> <<>>, show_class |-> sc,
       show_box |-> FALSE, out_when_no_box |-> o, im_name |-> nm,
       thresh |-> DefaultThresh] :
      sc \in BOOLEAN, o \in BOOLEAN, nm \in ImNames }

\* the calls of vis_one_image_opencv
OpencvInputs ==
    { [entry |-> "vis_one_image_opencv", form |-> f, dets |-> s, show_class |-> sc,
       show_box |-> sb, out_when_no_box |-> FALSE, im_name |-> <<>>,
       thresh |-> DefaultThresh] :
      f \in {"list", "array"}, s \in DetSeqs, sc \in BOOLEAN, sb \in BOOLEAN }

InitLoc(in) ==
    [boxes_none |-> (in.form = "none"),
     boxes |-> IF in.form = "array" THEN Rows(in.dets) ELSE <<>>,
     classes_defined |-> FALSE, classes |-> <<>>,
     sorted_inds |-> <<>>, temp_boxes |-> <<>>, temp_classify_id_list |-> <<>>,
     drawn |-> <<>>, label_list |-> <<>>, temp_text_total |-> <<>>,
     doc |-> <<>>, txt_file_name |-> <<>>, returned_early |-> FALSE]

StartPc(in) ==
    CASE in.entry = "vis_one_image" -> "start"
      [] in.entry = "vis_one_image_opencv" -> "cv_start"
      [] OTHER -> "idle"

NoFmt == [class_index |-> 0, score |-> 0, dataset |-> NoDataset, called |-> FALSE,
          result |-> <<>>]

NoConv == [dets |-> <<>>, cls_boxes |-> <<>>, cls_segms |-> NoneList, cls_keyps |-> NoneList,
           called |-> FALSE, result |-> <<>>]

NoKp == [conf |-> <<>>, kp_thresh |-> 0, called |-> FALSE, backend |-> "none",
         drawn |-> <<>>]

InitWith(ins) ==
    /\ inp = ins
    /\ pc = [w \in Workers |-> StartPc(ins[w])]
    /\ loc = [w \in Workers |-> InitLoc(ins[w])]
    /\ err = [w \in Workers |-> "none"]
    /\ dirs \in SUBSET {OutputDir, XmlPath}
    /\ xml_files = {}
    /\ images = {}
    /\ stdout = <<>>
    /\ fs0 = [dirs |-> dirs, xml_files |-> xml_files, images |-> images]
    /\ io_failed = [w \in Workers |-> FALSE]
    /\ fmt = NoFmt
    /\ conv = NoConv
    /\ kp = NoKp

\* one call, by worker 1
Init ==
    \E in \in VisInputs \cup OpencvInputs :
        InitWith([w \in Workers |-> IF w = 1 THEN in ELSE IdleInput])

Raise(w, e) ==
    /\ pc' = [pc EXCEPT ![w] = "raised"]
    /\ err' = [err EXCEPT ![w] = e]

Goto(w, p) ==
    /\ pc' = [pc EXCEPT ![w] = p]
    /\ UNCHANGED err

\* if not os.path.exists(output_dir):
ExistsOutputDir(w) ==
    /\ pc[w] = "start"
    /\ Goto(w, IF OutputDir \in dirs THEN "convert" ELSE "makedirs")
    /\ UNCHANGED <<inp, loc, dirs, xml_files, images, stdout, fs0, io_failed, fmt, conv, kp>>

\* os.makedirs(output_dir): FileExistsError when the directory exists by now
MakeDirs(w) ==
    /\ pc[w] = "makedirs"
    /\ IF OutputDir \in dirs
       THEN Raise(w, "FileExistsError") /\ UNCHANGED dirs
       ELSE Goto(w, "convert") /\ dirs' = dirs \cup {OutputDir}
    /\ UNCHANGED <<inp, loc, xml_files, images, stdout, fs0, io_failed, fmt, conv, kp>>

Converted(in, l) ==
    IF in.form = "list"
    THEN LET c == convert_from_cls_format(ClsBoxes(in.dets), NoneList, NoneList)
         IN [l EXCEPT !.boxes_none = c.boxes_none, !.boxes = c.boxes,
                      !.classes_defined = TRUE, !.classes = c.classes]
    ELSE l

\* if isinstance(boxes, list): boxes, segms, keypoints, classes = convert_from_cls_format(...)
Convert(w) ==
    /\ pc[w] = "convert"
    /\ loc' = [loc EXCEPT ![w] = Converted(inp[w], @)]
    /\ Goto(w, "check")
    /\ UNCHANGED <<inp, dirs, xml_files, images, stdout, fs0, io_failed, fmt, conv, kp>>

\* if (boxes is None or ... < thresh) and not out_when_no_box: return
Check(w) ==
    /\ pc[w] = "check"
    /\ IF EarlyReturn(loc[w].boxes_none, loc[w].boxes, inp[w].thresh, inp[w].out_when_no_box)
       THEN /\ Goto(w, "done")
            /\ loc' = [loc EXCEPT ![w].returned_early = TRUE]
       ELSE /\ Goto(w, "sort")
            /\ UNCHANGED loc
    /\ UNCHANGED <<inp, dirs, xml_files, images, stdout, fs0, io_failed, fmt, conv, kp>>

\* lines 453-458: sorted_inds
Sort(w) ==
    /\ pc[w] = "sort"
    /\ \E p \in (IF loc[w].boxes_none THEN {<<>>} ELSE SortedInds(loc[w].boxes)) :
          loc' = [loc EXCEPT ![w].sorted_inds = p]
    /\ Goto(w, "walk")
    /\ UNCHANGED <<inp, dirs, xml_files, images, stdout, fs0, io_failed, fmt, conv, kp>>

\* lines 466-568: the for loop
WalkStep(w) ==
    /\ pc[w] = "walk"
    /\ LET r == Walk(loc[w].sorted_inds, loc[w].boxes, loc[w].classes_defined,
                     loc[w].classes, inp[w])
       IN /\ loc' = [loc EXCEPT ![w].temp_boxes = r.temp_boxes,
                                ![w].temp_classify_id_list = r.temp_classify_id_list,
                                ![w].drawn = r.drawn]
          /\ IF r.err # "none" THEN Raise(w, r.err) ELSE Goto(w, "export")
    /\ UNCHANGED <<inp, dirs, xml_files, images, stdout, fs0, io_failed, fmt, conv, kp>>


Exported(in, l) ==
    LET temp_boxes == Tail(l.temp_boxes)            \* np.delete(temp_boxes, 0, axis=0)
        image_name == Basename(in.im_name)          \* im_name.split('/')[-1]
        label_list == id_map_func(l.temp_classify_id_list)
        t == txt_file_func(image_name, label_list, temp_boxes)
    IN [err |-> t.err,
        loc |-> [l EXCEPT !.temp_boxes = temp_boxes, !.label_list = label_list,
                          !.temp_text_total = t.rows]]

\* lines 570-581: the rows of the export
Export(w) ==
    /\ pc[w] = "export"
    /\ LET r == Exported(inp[w], loc[w])
       IN /\ loc' = [loc EXCEPT ![w] = r.loc]
          /\ IF r.err # "none" THEN Raise(w, r.err) ELSE Goto(w, "xml_exists")
    /\ UNCHANGED <<inp, dirs, xml_files, images, stdout, fs0, io_failed, fmt, conv, kp>>

\* xml_create_func: if not os.path.exists(xml_path):
XmlExists(w) ==
    /\ pc[w] = "xml_exists"
    /\ Goto(w, IF XmlPath \in dirs THEN "xml_build" ELSE "xml_mkdir")
    /\ UNCHANGED <<inp, loc, dirs, xml_files, images, stdout, fs0, io_failed, fmt, conv, kp>>

\* os.mkdir(xml_path): FileExistsError when the directory exists by now
XmlMkdir(w) ==
    /\ pc[w] = "xml_mkdir"
    /\ IF XmlPath \in dirs
       THEN Raise(w, "FileExistsError") /\ UNCHANGED dirs
       ELSE Goto(w, "xml_build") /\ dirs' = dirs \cup {XmlPath}
    /\ UNCHANGED <<inp, loc, xml_files, images, stdout, fs0, io_failed, fmt, conv, kp>>

ImageSizeYs == [k \in 1..3 |-> Digits(ImShape[k])]  \* [str(im.shape[k]) for k in range(3)]

\* xml_create_func, lines 293-410
XmlBuild(w) ==
    /\ pc[w] = "xml_build"
    /\ LET image_name == Basename(inp[w].im_name)
           r == BuildDoc(ImagesFolder, image_name,
                         <<ImagePath, ImagesFolder, "/">> \o image_name,
                         ImageSizeYs, loc[w].temp_text_total)
       IN /\ loc' = [loc EXCEPT ![w].doc = r.doc, ![w].txt_file_name = r.txt_file_name]
          /\ IF r.err # "none" THEN Raise(w, r.err) ELSE Goto(w, "xml_write")
    /\ UNCHANGED <<inp, dirs, xml_files, images, stdout, fs0, io_failed, fmt, conv, kp>>

\* xml_create_func, lines 411-418: open() may fail, and so may the write, which
\* leaves the file opened for writing cut short
XmlWrite(w) ==
    /\ pc[w] = "xml_write"
    /\ \E outcome \in {"ok", "open_fails", "write_fails"} :
         LET r == XmlWriteResult(outcome)
             name == XmlFileName(loc[w].txt_file_name)
         IN /\ xml_files' = CASE outcome = "ok" -> WriteFile(xml_files, name, loc[w].doc)
                              [] outcome = "write_fails" -> WriteFile(xml_files, name, Partial)
                              [] OTHER -> xml_files
            /\ io_failed' = [io_failed EXCEPT ![w] = (outcome # "ok")]
            /\ stdout' = stdout \o [k \in 1..Len(r.out) |-> <<w, r.out[k]>>]
            /\ pc' = [pc EXCEPT ![w] = r.pc]
            /\ err' = [err EXCEPT ![w] = r.err]
    /\ UNCHANGED <<inp, loc, dirs, images, fs0, fmt, conv, kp>>

\* output_name = splitext(basename(im_name))[0] + splitext(basename(im_name))[1]
OutputName(im_name) == SplitExt(Basename(im_name))[1] \o SplitExt(Basename(im_name))[2]

\* fig.savefig(os.path.join(output_dir, output_name), dpi=dpi)
SaveFig(w) ==
    /\ pc[w] = "savefig"
    /\ images' = images \cup {OutputName(inp[w].im_name)}
    /\ Goto(w, "done")
    /\ UNCHANGED <<inp, loc, dirs, xml_files, stdout, fs0, io_failed, fmt, conv, kp>>

----------------------------------------------------------------------------
(* vis_one_image_opencv *)

Bbox(i) == [kind |-> "bbox", det |-> i, text |-> <<>>]

RECURSIVE CvWalkFrom(_, _, _, _, _, _, _)
CvWalkFrom(k, sorted_inds, boxes, classes_defined, classes, args, acc) ==
    IF k > Len(sorted_inds) THEN acc
    ELSE
      LET i == sorted_inds[k]
          score == boxes[i + 1][5]
          boxed == IF args.show_box THEN [acc EXCEPT !.drawn = Append(@, Bbox(i))] ELSE acc
      IN IF score < args.thresh
         THEN CvWalkFrom(k + 1, sorted_inds, boxes, classes_defined, classes, args, acc)
         ELSE IF ~args.show_class
         THEN CvWalkFrom(k + 1, sorted_inds, boxes, classes_defined, classes, args, boxed)
         ELSE IF ~classes_defined
         THEN [boxed EXCEPT !.err = "NameError"]
         ELSE CvWalkFrom(k + 1, sorted_inds, boxes, classes_defined, classes, args,
                [boxed EXCEPT !.drawn = Append(@, Text(i,
                    get_class_string(classes[i + 1], score, NoDataset)))])

\* the whole of vis_one_image_opencv: it reads and writes no file
VisOneImageOpencv(w) ==
    /\ pc[w] = "cv_start"
    /\ LET c == Converted(inp[w], loc[w])
       IN IF NothingToRender(c.boxes_none, c.boxes, inp[w].thresh)
          THEN /\ loc' = [loc EXCEPT ![w] = [c EXCEPT !.returned_early = TRUE]]
               /\ Goto(w, "done")
          ELSE \E p \in SortedInds(c.boxes) :
                 LET r == CvWalkFrom(1, p, c.boxes, c.classes_defined, c.classes, inp[w],
                                     [drawn |-> <<>>, err |-> "none"])
                 IN /\ loc' = [loc EXCEPT ![w] = [c EXCEPT !.sorted_inds = p,
                                                          !.drawn = r.drawn]]
                    /\ IF r.err # "none" THEN Raise(w, r.err) ELSE Goto(w, "done")
    /\ UNCHANGED <<inp, dirs, xml_files, images, stdout, fs0, io_failed, fmt, conv, kp>>

----------------------------------------------------------------------------
(* The specifications *)

Step(w) ==
    \/ ExistsOutputDir(w)
    \/ MakeDirs(w)
    \/ Convert(w)
    \/ Check(w)
    \/ Sort(w)
    \/ WalkStep(w)
    \/ Export(w)
    \/ XmlExists(w)
    \/ XmlMkdir(w)
    \/ XmlBuild(w)
    \/ XmlWrite(w)
    \/ SaveFig(w)
    \/ VisOneImageOpencv(w)

Next == \E w \in Workers : Step(w)

\* one call of vis_one_image or vis_one_image_opencv
Spec == Init /\ [][Next]_vars

Det(c, b, s) == [cls |-> c, box |-> b, score |-> s]

\* the calls the workers of a batch make at the same time, one image each
ConcInputs ==
    { [entry |-> "vis_one_image", form |-> "list", dets |-> s, show_class |-> TRUE,
       show_box |-> FALSE, out_when_no_box |-> FALSE, im_name |-> nm,
       thresh |-> DefaultThresh] :
      s \in { << Det(1, <<0, 0, 10, 5>>, 950) >>, << Det(7, <<1, 1, 7, 6>>, 850) >> },
      nm \in { <<"a", ".", "j", "p", "g">>, <<"b", ".", "j", "p", "g">> } }
    \cup
    { [entry |-> "vis_one_image_opencv", form |-> "list",
       dets |-> << Det(1, <<0, 0, 10, 5>>, 950) >>, show_class |-> TRUE,
       show_box |-> TRUE, out_when_no_box |-> FALSE, im_name |-> <<>>,
       thresh |-> DefaultThresh] }

InitConc == \E ins \in [Workers -> ConcInputs] : InitWith(ins)

\* several workers, each on its own image, all started before any has finished
SpecConc == InitConc /\ [][Next]_vars

Idle == [w \in Workers |-> IdleInput]

FmtScores == {0, 4, 51, 500, 870, 900, 994, 996, 999}

SampleDataset == [none |-> FALSE, classes |-> SampleClasses]

InitFmt ==
    /\ inp = Idle
    /\ pc = [w \in Workers |-> "idle"]
    /\ loc = [w \in Workers |-> InitLoc(IdleInput)]
    /\ err = [w \in Workers |-> "none"]
    /\ dirs = {}
    /\ xml_files = {}
    /\ images = {}
    /\ stdout = <<>>
    /\ fs0 = [dirs |-> dirs, xml_files |-> xml_files, images |-> images]
    /\ io_failed = [w \in Workers |-> FALSE]
    /\ \E c \in 0..(NumClasses - 1), s \in FmtScores, d \in {NoDataset, SampleDataset} :
         fmt = [class_index |-> c, score |-> s, dataset |-> d, called |-> FALSE,
                result |-> <<>>]
    /\ conv = NoConv
    /\ kp = NoKp

\* a call of get_class_string
GetClassString ==
    /\ ~fmt.called
    /\ fmt' = [fmt EXCEPT !.called = TRUE,
                          !.result = get_class_string(fmt.class_index, fmt.score, fmt.dataset)]
    /\ UNCHANGED <<pc, inp, loc, err, dirs, xml_files, images, stdout, fs0, io_failed, conv, kp>>

NextFmt == GetClassString

SpecFmt == InitFmt /\ [][NextFmt]_vars

----------------------------------------------------------------------------
(* Calls of convert_from_cls_format *)

\* no call of vis_one_image or vis_one_image_opencv is under way
NoCalls ==
    /\ inp = Idle
    /\ pc = [w \in Workers |-> "idle"]
    /\ loc = [w \in Workers |-> InitLoc(IdleInput)]
    /\ err = [w \in Workers |-> "none"]
    /\ dirs = {}
    /\ xml_files = {}
    /\ images = {}
    /\ stdout = <<>>
    /\ fs0 = [dirs |-> dirs, xml_files |-> xml_files, images |-> images]
    /\ io_failed = [w \in Workers |-> FALSE]

RECURSIVE SelectItems(_, _, _, _)
\* the items (masks or keypoint sets) of the detections of class j, from detection k on
SelectItems(s, j, k, what) ==
    IF k > Len(s) THEN <<>>
    ELSE (IF s[k].cls = j THEN << [of |-> what, det |-> k] >> ELSE <<>>)
         \o SelectItems(s, j, k + 1, what)

\* cls_segms / cls_keyps of a detection sequence: one item per detection, per class
ClsItems(s, what) ==
    [none |-> FALSE, items |-> [j1 \in 1..NumClasses |-> SelectItems(s, j1 - 1, 1, what)]]

InitConv ==
    /\ NoCalls
    /\ fmt = NoFmt
    /\ kp = NoKp
    /\ \E s \in DetSeqs :
         \E sg \in {NoneList, ClsItems(s, "segm")}, ky \in {NoneList, ClsItems(s, "keyp")} :
           conv = [dets |-> s, cls_boxes |-> ClsBoxes(s), cls_segms |-> sg,
                   cls_keyps |-> ky, called |-> FALSE, result |-> <<>>]

\* a call of convert_from_cls_format
ConvertFromClsFormat ==
    /\ ~conv.called
    /\ conv' = [conv EXCEPT
                  !.called = TRUE,
                  !.result = << convert_from_cls_format(conv.cls_boxes, conv.cls_segms,
                                                        conv.cls_keyps) >>]
    /\ UNCHANGED <<pc, inp, loc, err, dirs, xml_files, images, stdout, fs0, io_failed, fmt, kp>>

NextConv == ConvertFromClsFormat

SpecConv == InitConv /\ [][NextConv]_vars

----------------------------------------------------------------------------
(* Keypoints: vis_keypoints and the keypoint block of vis_one_image *)

\* A joint is known by its name: dataset_keypoints.index(name) is its column in
\* kps.  Of kps the model keeps row 2, the confidence, which decides what is
\* drawn; a point is named by its joint.
Joints ==
    {"nose", "left_eye", "right_eye", "left_ear", "right_ear",
     "left_shoulder", "right_shoulder", "left_elbow", "right_elbow",
     "left_wrist", "right_wrist", "left_hip", "right_hip",
     "left_knee", "right_knee", "left_ankle", "right_ankle"}

kp_connections ==
    << <<"left_eye", "right_eye">>,
       <<"left_eye", "nose">>,
       <<"right_eye", "nose">>,
       <<"right_eye", "right_ear">>,
       <<"left_eye", "left_ear">>,
       <<"right_shoulder", "right_elbow">>,
       <<"right_elbow", "right_wrist">>,
       <<"left_shoulder", "left_elbow">>,
       <<"left_elbow", "left_wrist">>,
       <<"right_hip", "right_knee">>,
       <<"right_knee", "right_ankle">>,
       <<"left_hip", "left_knee">>,
       <<"left_knee", "left_ankle">>,
       <<"right_shoulder", "left_shoulder">>,
       <<"right_hip", "left_hip">> >>

DefaultKpThresh == 2

MaxVisible == 4

\* kps[2, i] > kp_thresh
Visible(c, kp_thresh) == c > kp_thresh

ScMidMaximum(c1, c2) == IF c1 >= c2 THEN c1 ELSE c2

\* np.minimum(kps[2, a], kps[2, b]): the confidence of a synthetic point
ScMid(c1, c2) == IF c1 <= c2 THEN c1 ELSE c2

Line(a, b, color) == [kind |-> "line", a |-> a, b |-> b, color |-> color]
Point(kind, a, color) == [kind |-> kind, a |-> a, b |-> a, color |-> color]

\* the two segments of the synthetic points mid_shoulder and mid_hip
SyntheticPrims(conf, kp_thresh) ==
    LET sc_mid_shoulder == ScMid(conf["right_shoulder"], conf["left_shoulder"])
        sc_mid_hip == ScMid(conf["right_hip"], conf["left_hip"])
        n == Len(kp_connections)
    IN (IF Visible(sc_mid_shoulder, kp_thresh) /\ Visible(conf["nose"], kp_thresh)
        THEN << Line("mid_shoulder", "nose", n) >> ELSE <<>>)
       \o
       (IF Visible(sc_mid_shoulder, kp_thresh) /\ Visible(sc_mid_hip, kp_thresh)
        THEN << Line("mid_shoulder", "mid_hip", n + 1) >> ELSE <<>>)

\* one round of 'for l in range(len(kp_lines))': the limb, then its two joints
LimbPrims(conf, kp_thresh, l, point) ==
    LET i1 == kp_connections[l + 1][1]
        i2 == kp_connections[l + 1][2]
    IN (IF Visible(conf[i1], kp_thresh) /\ Visible(conf[i2], kp_thresh)
        THEN << Line(i1, i2, l) >> ELSE <<>>)
       \o (IF Visible(conf[i1], kp_thresh) THEN << Point(point, i1, l) >> ELSE <<>>)
       \o (IF Visible(conf[i2], kp_thresh) THEN << Point(point, i2, l) >> ELSE <<>>)

RECURSIVE LimbsFrom(_, _, _, _)
LimbsFrom(conf, kp_thresh, l, point) ==
    IF l >= Len(kp_connections) THEN <<>>
    ELSE LimbPrims(conf, kp_thresh, l, point) \o LimbsFrom(conf, kp_thresh, l + 1, point)

\* vis_keypoints: the synthetic segments first, then the limbs and joints
vis_keypoints(conf, kp_thresh) ==
    SyntheticPrims(conf, kp_thresh) \o LimbsFrom(conf, kp_thresh, 0, "circle")

\* vis_one_image, 'show keypoints': the limbs and joints first, then the
\* synthetic segments
PlotKeypoints(conf, kp_thresh) ==
    LimbsFrom(conf, kp_thresh, 0, "dot") \o SyntheticPrims(conf, kp_thresh)

\* the confidences of the keypoints of a detection: at most MaxVisible joints
\* stand out at one level, the others share a level
KpConfs ==
    { [j \in Joints |-> IF j \in H THEN hi ELSE lo] :
      H \in {G \in SUBSET Joints : Cardinality(G) <= MaxVisible},
      lo \in {1, 2}, hi \in {3, 10} }

InitKp ==
    /\ NoCalls
    /\ fmt = NoFmt
    /\ conv = NoConv
    /\ \E c \in KpConfs, t \in {DefaultKpThresh, 9} :
         kp = [conf |-> c, kp_thresh |-> t, called |-> FALSE,
               backend |-> "none", drawn |-> <<>>]

\* vis_one_image_opencv: im = vis_keypoints(im, keypoints[i], kp_thresh)
VisKeypoints ==
    /\ ~kp.called
    /\ kp' = [kp EXCEPT !.called = TRUE, !.backend = "opencv",
                        !.drawn = vis_keypoints(kp.conf, kp.kp_thresh)]
    /\ UNCHANGED <<pc, inp, loc, err, dirs, xml_files, images, stdout, fs0, io_failed,
                   fmt, conv>>

\* vis_one_image: the keypoint block for kps = keypoints[i]
ShowKeypoints ==
    /\ ~kp.called
    /\ kp' = [kp EXCEPT !.called = TRUE, !.backend = "pyplot",
                        !.drawn = PlotKeypoints(kp.conf, kp.kp_thresh)]
    /\ UNCHANGED <<pc, inp, loc, err, dirs, xml_files, images, stdout, fs0, io_failed,
                   fmt, conv>>

NextKp == VisKeypoints \/ ShowKeypoints

SpecKp == InitKp /\ [][NextKp]_vars

----------------------------------------------------------------------------
(* What the claims speak of, read off the arguments of the call *)

IsVis(w) == inp[w].entry = "vis_one_image"

PassingSet(w) == {k \in 1..Len(inp[w].dets) : inp[w].dets[k].score >= inp[w].thresh}

NumPassing(w) == Cardinality(PassingSet(w))

NoPass(w) == PassingSet(w) = {}

Ended(w) == pc[w] \in {"done", "raised"}

Files == [dirs |-> dirs, xml_files |-> xml_files, images |-> images]

\* the complete annotation records in xml_path
Records == {f \in xml_files : f[2] # Partial}

----------------------------------------------------------------------------
(* C1 *)

\* C1 as stated: a call of vis_one_image with no detection of score >= thresh
\* and out_when_no_box false leaves the filesystem as it was before the call.
C1_Original ==
    \A w \in Workers :
        (IsVis(w) /\ NoPass(w) /\ ~inp[w].out_when_no_box /\ pc[w] = "done") => Files = fs0

\* C1, amended: such a call never goes past the early return, writes no
\* rendered image and no annotation file and does not create xml_path; the one
\* change it can make to the filesystem is to create output_dir.
C1_NoArtifacts ==
    \A w \in Workers :
        (IsVis(w) /\ NoPass(w) /\ ~inp[w].out_when_no_box) =>
            /\ pc[w] \in {"start", "makedirs", "convert", "check", "done"}
            /\ err[w] = "none"
            /\ images = fs0.images
            /\ xml_files = fs0.xml_files
            /\ dirs \in {fs0.dirs, fs0.dirs \cup {OutputDir}}

C1_Witness ==
    \E w \in Workers :
        /\ IsVis(w) /\ NoPass(w) /\ ~inp[w].out_when_no_box
        /\ Len(inp[w].dets) >= 1
        /\ pc[w] = "done" /\ loc[w].returned_early
        /\ OutputDir \notin fs0.dirs /\ OutputDir \in dirs

----------------------------------------------------------------------------
(* C2 *)

\* C2: a call of vis_one_image with no detection of score >= thresh and
\* out_when_no_box true ends without an error, having written (unless the file
\* could not be written) an Annotation Record with zero object entries and
\* having saved the output image.
C2_Claim ==
    \A w \in Workers :
        (IsVis(w) /\ NoPass(w) /\ inp[w].out_when_no_box /\ Ended(w)) =>
            /\ pc[w] = "done"
            /\ err[w] = "none"
            /\ io_failed[w] \/ \E f \in Records : Len(f[2][1].objects) = 0
            /\ OutputName(inp[w].im_name) \in images

----------------------------------------------------------------------------
(* C3 *)

Mapped(c) == c \in 1..Len(id_list)

\* the call went past the loop, and no directory race or file failure met it
Exporting(w) ==
    /\ IsVis(w) /\ Ended(w) /\ ~loc[w].returned_early
    /\ err[w] \notin {"NameError", "FileExistsError"}
    /\ ~io_failed[w]

\* C3: when a call of vis_one_image reaches the export (here with at least one
\* detection of score >= thresh, each of a class the vocabulary has), then
\* whatever show_class is, the record written has as many object entries as
\* there are detections of score >= thresh.
C3_Claim ==
    \A w \in Workers :
        (/\ Exporting(w)
         /\ NumPassing(w) >= 1
         /\ \A k \in PassingSet(w) : Mapped(inp[w].dets[k].cls)) =>
            \E f \in Records : Len(f[2][1].objects) = NumPassing(w)

----------------------------------------------------------------------------
(* C4 *)

\* the place of a call where sorted_inds has been computed over the boxes
Sorted(w) ==
    \/ pc[w] \in {"walk", "export", "xml_exists", "xml_mkdir", "xml_build", "xml_write",
                  "savefig"}
    \/ pc[w] \in {"done", "raised"} /\ ~loc[w].returned_early
                                    /\ err[w] # "FileExistsError" /\ ~loc[w].boxes_none

\* the box area of detection i (from 0) of the call
AreaOf(w, i) ==
    LET b == inp[w].dets[i + 1].box IN (b[3] - b[1]) * (b[4] - b[2])

IsPermutation(p, n) ==
    /\ Len(p) = n
    /\ \A i \in 0..(n - 1) : \E k \in 1..n : p[k] = i

NonIncreasingArea(w, p) ==
    \A k \in 1..(Len(p) - 1) : AreaOf(w, p[k]) >= AreaOf(w, p[k + 1])

StableOnTies(w, p) ==
    \A k, l \in 1..Len(p) : (k < l /\ AreaOf(w, p[k]) = AreaOf(w, p[l])) => p[k] < p[l]

AreasAre(w, as) ==
    /\ Len(inp[w].dets) = Len(as)
    /\ \A k \in 1..Len(as) : AreaOf(w, k - 1) = as[k]

\* C4 as stated: the paint order is a permutation of all detection indices
\* sorted by non-increasing box area in which detections of equal area keep
\* their original relative order.
C4_Original ==
    \A w \in Workers :
        (Sorted(w) /\ ~loc[w].boxes_none) =>
            /\ IsPermutation(loc[w].sorted_inds, Len(inp[w].dets))
            /\ NonIncreasingArea(w, loc[w].sorted_inds)
            /\ StableOnTies(w, loc[w].sorted_inds)

\* C4, amended: in vis_one_image and in vis_one_image_opencv the paint order is
\* a permutation of all detection indices sorted by non-increasing box area
\* (the order among detections of equal area is not fixed); boxes of areas
\* [50, 10, 30] are walked in index order [0, 2, 1].
C4_PaintOrder ==
    \A w \in Workers :
        (Sorted(w) /\ ~loc[w].boxes_none) =>
            /\ IsPermutation(loc[w].sorted_inds, Len(inp[w].dets))
            /\ NonIncreasingArea(w, loc[w].sorted_inds)
            /\ AreasAre(w, <<50, 10, 30>>) => loc[w].sorted_inds = <<0, 2, 1>>

C4_Witness ==
    \E w \in Workers :
        /\ IsVis(w) /\ Sorted(w) /\ pc[w] = "done"
        /\ AreasAre(w, <<50, 10, 30>>)
        /\ loc[w].sorted_inds = <<0, 2, 1>>
        /\ Len(loc[w].drawn) >= 3

----------------------------------------------------------------------------
(* C5 *)

AfterMapping(w) ==
    pc[w] \in {"xml_exists", "xml_mkdir", "xml_build", "xml_write", "savefig", "done"}

\* C5: a class index without an entry in the vocabulary table (0, or above 7)
\* makes the mapping fail with an UnmappedIdentity error: id_map_func never
\* returns a label for it, and the call does not go on to the exporter with it.
C5_Claim ==
    \A w \in Workers :
        \A k \in 1..Len(loc[w].temp_classify_id_list) :
            ~Mapped(loc[w].temp_classify_id_list[k]) =>
                /\ ~AfterMapping(w)
                /\ pc[w] = "raised" => err[w] = "UnmappedIdentity"

----------------------------------------------------------------------------
(* C6 *)

\* the detections of score >= thresh, in the order of the walk p
RECURSIVE PassingInOrder(_, _, _)
PassingInOrder(w, p, k) ==
    IF k > Len(p) THEN <<>>
    ELSE (IF inp[w].dets[p[k] + 1].score >= inp[w].thresh THEN <<p[k]>> ELSE <<>>)
         \o PassingInOrder(w, p, k + 1)

Vocabulary(c) == IF Mapped(c) THEN id_list[c] ELSE "unmapped"

\* the (identity, box) pairs the export of the call is to hold
ExpectedPairs(w) ==
    LET q == PassingInOrder(w, loc[w].sorted_inds, 1)
    IN [k \in 1..Len(q) |->
          <<Vocabulary(inp[w].dets[q[k] + 1].cls), inp[w].dets[q[k] + 1].box>>]

\* the (name, box) pairs read back from a record, the box texts parsed as numbers
ParsedPairs(doc) ==
    [k \in 1..Len(doc.objects) |->
       <<doc.objects[k].name,
         <<ParseFloat(doc.objects[k].xmin), ParseFloat(doc.objects[k].ymin),
           ParseFloat(doc.objects[k].xmax), ParseFloat(doc.objects[k].ymax)>> >>]

\* C6: every Annotation Record written holds, in paint order, exactly the pairs
\* (vocabulary entry at the detection's class index, that detection's box) of
\* the detections with score >= thresh; parsing the record gives them back.
C6_RoundTrip ==
    \A f \in Records :
        \E w \in Workers : IsVis(w) /\ ParsedPairs(f[2][1]) = ExpectedPairs(w)

C6_Witness ==
    \E w \in Workers, f \in Records :
        /\ pc[w] = "done"
        /\ loc[w].sorted_inds = <<0, 2, 1>>
        /\ Len(f[2][1].objects) = 3
        /\ ParsedPairs(f[2][1]) = ExpectedPairs(w)
        /\ f[2][1].objects[2].name = "id26"

----------------------------------------------------------------------------
(* C7 *)

\* C7: the annotation file is named by the image's base name with its
\* extension, whatever it is, replaced by '.xml'.
C7_Claim ==
    \A f \in xml_files :
        \E w \in Workers :
            IsVis(w) /\ f[1] = SplitExt(Basename(inp[w].im_name))[1] \o XmlSuffix

----------------------------------------------------------------------------
(* C8 *)

\* C8: under every interleaving of the workers, no worker fails because a
\* directory it found missing was created by another worker in the meantime.
C8_Claim == \A w \in Workers : err[w] # "FileExistsError"

----------------------------------------------------------------------------
(* C9 *)

ClassText == IF fmt.dataset.none THEN <<"i", "d">> \o Digits(fmt.class_index)
             ELSE fmt.dataset.classes[fmt.class_index]

\* C9: get_class_string returns the label, a space, and the score with two
\* decimal places and its leading '0' stripped: 0.9 gives "<label> .90".
C9_Claim ==
    fmt.called =>
        /\ fmt.result = ClassText \o <<" ">> \o LStrip(Format2f(fmt.score), "0")
        /\ fmt.score = 900 => fmt.result = ClassText \o <<" ", ".", "9", "0">>

----------------------------------------------------------------------------
(* C10 *)

Reported(w) == \E k \in 1..Len(stdout) : stdout[k] = <<w, "xml_err">>

\* C10: when opening or writing the annotation file fails, the failure is
\* printed and no exception leaves xml_create_func: vis_one_image goes on to
\* save the rendered image and returns normally.
C10_WriteFailureContained ==
    \A w \in Workers :
        io_failed[w] =>
            /\ pc[w] \in {"savefig", "done"}
            /\ err[w] = "none"
            /\ Reported(w)
            /\ pc[w] = "done" => OutputName(inp[w].im_name) \in images

C10_Witness ==
    \E w \in Workers :
        /\ io_failed[w] /\ pc[w] = "done" /\ Reported(w)
        /\ OutputName(inp[w].im_name) \in images
        /\ \E f \in xml_files : f[2] = Partial

----------------------------------------------------------------------------
(* C11 *)

\* the number of boxes over all class sub-lists
RECURSIVE TotalCount(_)
TotalCount(ll) == IF ll = <<>> THEN 0 ELSE Len(ll[1]) + TotalCount(Tail(ll))

\* C11: convert_from_cls_format returns a class-index sequence as long as the
\* total number of detections, each class index j repeated by the number of
\* boxes of class j, in class order; classes[i] is the class whose sub-list the
\* i-th flat box came from; boxes is None exactly when every class sub-list is
\* empty; segms and keyps are None exactly when the nested input is None.
C11_Converted ==
    conv.called =>
        LET r == conv.result[1]
            n == Len(conv.dets)
        IN /\ Len(r.classes) = TotalCount(conv.cls_boxes)
           /\ Len(r.classes) = n
           /\ \A k \in 1..(n - 1) : r.classes[k] <= r.classes[k + 1]
           /\ \A j \in 0..(Len(conv.cls_boxes) - 1) :
                Cardinality({k \in 1..n : r.classes[k] = j}) = Len(conv.cls_boxes[j + 1])
           /\ r.boxes_none <=> (\A j1 \in 1..Len(conv.cls_boxes) : conv.cls_boxes[j1] = <<>>)
           /\ ~r.boxes_none =>
                /\ Len(r.boxes) = n
                /\ \A k \in 1..n : /\ r.boxes[k] = Row(conv.dets[k])
                                   /\ r.classes[k] = conv.dets[k].cls
           /\ r.segms.none <=> conv.cls_segms.none
           /\ r.keyps.none <=> conv.cls_keyps.none

C11_Witness ==
    /\ conv.called
    /\ Len(conv.dets) = 3
    /\ conv.cls_boxes[1] = <<>>
    /\ conv.result[1].classes = <<2, 7, 7>>
    /\ ~conv.cls_segms.none /\ Len(conv.result[1].segms.items) = 3
    /\ conv.cls_keyps.none /\ conv.result[1].keyps.none

----------------------------------------------------------------------------
(* C12 *)

\* the joints a point is built from
JointsOf(e) ==
    CASE e = "mid_shoulder" -> {"right_shoulder", "left_shoulder"}
      [] e = "mid_hip" -> {"right_hip", "left_hip"}
      [] OTHER -> {e}

DrawnLine(a, b) ==
    \E k \in 1..Len(kp.drawn) :
        kp.drawn[k].kind = "line" /\ {kp.drawn[k].a, kp.drawn[k].b} = {a, b}

DrawnPoint(a) ==
    \E k \in 1..Len(kp.drawn) : kp.drawn[k].kind # "line" /\ kp.drawn[k].a = a

\* C12: in both backends a limb segment is drawn only if the confidence of each
\* of its two endpoints is strictly greater than kp_thresh and a joint only if
\* its own is; a segment of a synthetic point is drawn only if every joint it is
\* built from exceeds kp_thresh.  A limb with one endpoint of confidence 1 and
\* kp_thresh 2 is never drawn, even if the other endpoint's confidence is 10.
C12_Gating ==
    kp.called =>
        /\ \A k \in 1..Len(kp.drawn) :
             \A e \in {kp.drawn[k].a, kp.drawn[k].b} :
                 \A j \in JointsOf(e) : kp.conf[j] > kp.kp_thresh
        /\ \A l \in 1..Len(kp_connections) :
             LET a == kp_connections[l][1]
                 b == kp_connections[l][2]
             IN (kp.kp_thresh = 2 /\ {kp.conf[a], kp.conf[b]} = {1, 10}) => ~DrawnLine(a, b)

C12_Witness ==
    /\ kp.called /\ kp.backend = "pyplot" /\ kp.kp_thresh = 2
    /\ kp.conf["right_eye"] = 1 /\ kp.conf["nose"] = 10
    /\ ~DrawnLine("right_eye", "nose") /\ DrawnPoint("nose")
    /\ DrawnLine("left_eye", "nose")
    /\ DrawnLine("mid_shoulder", "nose")
    /\ ~DrawnLine("mid_shoulder", "mid_hip")

====
